---- MODULE Spec2Model ----
(***************************************************************************)
(* Model of VideosFromSound.py: duration resolution, chunk planning,       *)
(* audio-event detection, the per-chunk worker (process_segment_wrapper),  *)
(* the thread pool of process_vod and the loop over recordings in main.    *)
(*                                                                         *)
(* Times local to a chunk are half-second valued (window midpoints), so    *)
(* they are counted in ticks of 1/TicksPerSecond s; everything handed to   *)
(* download_segment is in whole seconds, as int() makes it.                *)
(***************************************************************************)
EXTENDS Integers, Sequences, FiniteSets, TLC

\* ------------------------------------------------------------ configuration
TicksPerSecond == 2
PRE_SECONDS == 5
POST_SECONDS == 5
MIN_GAP_BETWEEN_EVENTS == 10
SEGMENT_DURATION == 300
MAX_WORKERS == 12
window_size == 15
step_size == 5
min_onsets == 6
centroid_threshold == 4000

\* ------------------------------------------------------------------ bounds
\* PlanSpec draws totalSeconds from 0..MaxTotalSeconds, chunkLength from
\* 1..MaxChunkLength.
MaxTotalSeconds == 12
MaxChunkLength == 5
\* WindowSpec draws a waveform with an onset every 2 s, at most
\* MaxOnsetSlots of them.
MaxOnsetSlots == 12
\* GapSpec draws an event list of at most MaxEvents events, each at a
\* multiple of 2.5 s up to MaxEventSlot of them.
\* Destination names are compared for indices up to MaxIndex.
MaxIndex == 11
\* PoolSpec plans up to MAX_WORKERS + ExtraChunks chunks.
ExtraChunks == 2
MaxEvents == 3
MaxEventSlot == 10

\* ------------------------------------------------------------ small helpers
Min(a, b) == IF a <= b THEN a ELSE b
Max(a, b) == IF a >= b THEN a ELSE b

\* ------------------------------------------------------ duration resolution
\* A duration string is a sequence of one-character strings.
DigitChars == <<"0", "1", "2", "3", "4", "5", "6", "7", "8", "9">>
IsDigit(c) == \E d \in 1..Len(DigitChars) : DigitChars[d] = c
DigitVal(c) == (CHOOSE d \in 1..Len(DigitChars) : DigitChars[d] = c) - 1
IsSpace(c) == c \in {" ", "\n"}

RECURSIVE lstrip(_)
lstrip(s) == IF s # <<>> /\ IsSpace(Head(s)) THEN lstrip(Tail(s)) ELSE s

RECURSIVE rstrip(_)
rstrip(s) ==
    IF s # <<>> /\ IsSpace(s[Len(s)]) THEN rstrip(SubSeq(s, 1, Len(s) - 1)) ELSE s

\* str.strip()
strip(s) == rstrip(lstrip(s))

RECURSIVE splitFrom(_, _)
\* str.split(":") with the field being read carried in cur; "" gives [""].
splitFrom(s, cur) ==
    IF s = <<>> THEN <<cur>>
    ELSE IF Head(s) = ":" THEN <<cur>> \o splitFrom(Tail(s), <<>>)
         ELSE splitFrom(Tail(s), Append(cur, Head(s)))

split(s) == splitFrom(s, <<>>)

RECURSIVE Decimal(_)
Decimal(ds) ==
    IF ds = <<>> THEN 0
    ELSE 10 * Decimal(SubSeq(ds, 1, Len(ds) - 1)) + DigitVal(ds[Len(ds)])

\* int(field): surrounding whitespace and one leading sign are accepted, an
\* empty or non-numeric field raises ValueError.
py_int(field) ==
    LET f    == strip(field)
        sgn  == f # <<>> /\ Head(f) \in {"-", "+"}
        body == IF sgn THEN Tail(f) ELSE f
    IN  IF body = <<>> \/ \E j \in 1..Len(body) : ~IsDigit(body[j])
        THEN [err |-> TRUE, val |-> 0]
        ELSE [err |-> FALSE,
              val |-> IF sgn /\ Head(f) = "-" THEN 0 - Decimal(body) ELSE Decimal(body)]

\* Lines 135-143 of process_vod: the duration in seconds, or err for the
\* ValueError that map(int, ...) raises.
parse_duration(stdout) ==
    LET duration_str == strip(stdout)
        fields == split(duration_str)
        parts  == [j \in 1..Len(fields) |-> py_int(fields[j])]
    IN  IF \E j \in 1..Len(parts) : parts[j].err
        THEN [err |-> TRUE, val |-> 0]
        ELSE IF Len(parts) = 3
             THEN [err |-> FALSE,
                   val |-> parts[1].val * 3600 + parts[2].val * 60 + parts[3].val]
             ELSE IF Len(parts) = 2
                  THEN [err |-> FALSE, val |-> parts[1].val * 60 + parts[2].val]
                  ELSE [err |-> FALSE, val |-> parts[1].val]

\* ------------------------------------------------------------ chunk planning
RECURSIVE py_range(_, _, _)
\* range(start, stop, step) for step > 0
py_range(start, stop, step) ==
    IF start >= stop THEN <<>> ELSE <<start>> \o py_range(start + step, stop, step)

\* Line 146 without its min(): the last chunk is not clipped to the duration.
plan_chunks_unclipped(duration, chunkLength) ==
    LET starts == py_range(0, duration, chunkLength)
    IN  [j \in 1..Len(starts) |-> <<starts[j], starts[j] + chunkLength>>]

\* Line 146 with range(0, vod_duration + 1, ...): a chunk starts at the
\* duration when the chunk length divides it.
plan_chunks_inclusive(duration, chunkLength) ==
    LET starts == py_range(0, duration + 1, chunkLength)
    IN  [j \in 1..Len(starts) |-> <<starts[j], Min(starts[j] + chunkLength, duration)>>]

\* Line 146 with the chunk length as a parameter.
plan_chunks(duration, chunkLength) ==
    LET starts == py_range(0, duration, chunkLength)
    IN  [j \in 1..Len(starts) |-> <<starts[j], Min(starts[j] + chunkLength, duration)>>]

\* --------------------------------------------------------- event detection
\* An onset is [t, strong, centroid]: its time in ticks, whether its onset
\* strength exceeds the 95th percentile of the curve, and the spectral
\* centroid of its frame in Hz. An audio is the sequence of its onsets in
\* ascending time, as librosa reports them.
Ticks(seconds) == seconds * TicksPerSecond

\* Lines 80-83.
filter_onsets(onsets) ==
    LET kept == SelectSeq(onsets, LAMBDA o : o.strong /\ o.centroid > centroid_threshold)
    IN  [j \in 1..Len(kept) |-> kept[j].t]

\* Line 94.
onsets_in_window(filtered_onsets, window_start, window_end) ==
    SelectSeq(filtered_onsets, LAMBDA t : window_start <= t /\ t < window_end)

\* Lines 95-97 with `>` for `>=` at line 95.
window_event_strict(filtered_onsets, window_start) ==
    LET window_end == window_start + Ticks(window_size)
    IN  IF Len(onsets_in_window(filtered_onsets, window_start, window_end)) > min_onsets
        THEN <<(window_start + window_end) \div 2>>
        ELSE <<>>

\* Lines 95-97 for one window position: the midpoint, or nothing.
window_event(filtered_onsets, window_start) ==
    LET window_end == window_start + Ticks(window_size)
    IN  IF Len(onsets_in_window(filtered_onsets, window_start, window_end)) >= min_onsets
        THEN <<(window_start + window_end) \div 2>>
        ELSE <<>>

RECURSIVE flatten(_)
flatten(ss) == IF ss = <<>> THEN <<>> ELSE Head(ss) \o flatten(Tail(ss))

\* Lines 89-97 with np.arange(0, max_time - window_size, step_size): only
\* windows that end at or before the last onset.
cluster_events_whole_windows(filtered_onsets) ==
    LET max_time == IF filtered_onsets # <<>>
                    THEN filtered_onsets[Len(filtered_onsets)] ELSE 0
        starts   == py_range(0, max_time - Ticks(window_size), Ticks(step_size))
    IN  flatten([j \in 1..Len(starts) |-> window_event(filtered_onsets, starts[j])])

\* Lines 89-97: np.arange(0, max_time - window_size + step_size, step_size).
cluster_events(filtered_onsets) ==
    LET max_time == IF filtered_onsets # <<>>
                    THEN filtered_onsets[Len(filtered_onsets)] ELSE 0
        starts   == py_range(0, max_time - Ticks(window_size) + Ticks(step_size),
                             Ticks(step_size))
    IN  flatten([j \in 1..Len(starts) |-> window_event(filtered_onsets, starts[j])])

RECURSIVE insert_sorted(_, _)
insert_sorted(x, s) ==
    IF s = <<>> THEN <<x>>
    ELSE IF x < Head(s) THEN <<x>> \o s
         ELSE <<Head(s)>> \o insert_sorted(x, Tail(s))

RECURSIVE sorted(_)
sorted(s) == IF s = <<>> THEN <<>> ELSE insert_sorted(s[Len(s)], sorted(SubSeq(s, 1, Len(s) - 1)))

\* Line 102 with `>=` for `>`.
accepts_at_gap(filtered_events, t) ==
    filtered_events = <<>>
    \/ t - filtered_events[Len(filtered_events)] >= Ticks(MIN_GAP_BETWEEN_EVENTS)

\* Line 102: is t kept, given the events accepted so far?
accepts(filtered_events, t) ==
    filtered_events = <<>>
    \/ t - filtered_events[Len(filtered_events)] > Ticks(MIN_GAP_BETWEEN_EVENTS)

RECURSIVE gap_loop(_, _)
gap_loop(todo, filtered_events) ==
    IF todo = <<>> THEN filtered_events
    ELSE gap_loop(Tail(todo),
                  IF accepts(filtered_events, Head(todo))
                  THEN Append(filtered_events, Head(todo)) ELSE filtered_events)

\* Lines 100-103 with the first event taken as the last accepted one but
\* never appended.
gap_filter_seeded(events) ==
    IF events = <<>> THEN <<>>
    ELSE Tail(gap_loop(Tail(sorted(events)), <<Head(sorted(events))>>))

\* Lines 100-103.
gap_filter(events) == gap_loop(sorted(events), <<>>)

\* Line 105 without its max(0, ...).
pad_event_unclamped(t) == <<t - Ticks(PRE_SECONDS), t + Ticks(POST_SECONDS)>>

\* Line 105: one padded (start, end) pair, in ticks.
pad_event(t) == <<Max(0, t - Ticks(PRE_SECONDS)), t + Ticks(POST_SECONDS)>>

\* Lines 71-107: the segments of a decodable audio.
detect_segments(onsets) ==
    LET filtered_events == gap_filter(cluster_events(filter_onsets(onsets)))
    IN  [j \in 1..Len(filtered_events) |-> pad_event(filtered_events[j])]

\* Lines 65-69: an audio file is [decodable, analysable, onsets]; one that
\* librosa cannot load gives [].
detect_loud_sections(audio) ==
    IF ~audio.decodable THEN <<>> ELSE detect_segments(audio.onsets)

\* ------------------------------------------------------------------- state
VARIABLES
    files,            \* paths that exist under TEMP_FOLDER and OUTPUT_FOLDER
    downloads,        \* calls made to download_segment: [vod, start, end, path]
    log,              \* error lines printed: [line, vod, seg, hl, exc]
    main_pc,          \* where main is
    vod_index,        \* idx of the loop of main
    duration_stdout,  \* result.stdout of the running process_vod
    vod_segments,     \* its chunk plan
    futures,          \* seg_idx -> [pc, events, i, segment_clips]
    collected,        \* the futures as_completed has yielded
    highlight_paths,  \* the aggregate of the running process_vod
    all_highlights,   \* the aggregate of main
    arg,              \* argument of a pure function under check
    ret               \* and its result

vars == <<files, downloads, log, main_pc, vod_index, duration_stdout, vod_segments,
          futures, collected, highlight_paths, all_highlights, arg, ret>>

poolVars == <<main_pc, vod_index, duration_stdout, vod_segments, collected,
              highlight_paths, all_highlights, arg, ret>>

\* ------------------------------------------------------------ environment
\* Line 190: the recordings of a run.
vod_urls == <<"vod0", "vod1">>

\* Line 150 with a name that leaves seg_idx out.
temp_file_per_vod(vod, seg_idx) == [folder |-> "temp", vod |-> vod, seg |-> 0, hl |-> -1]

\* Lines 150 and 162: the destinations.
temp_file(vod, seg_idx) == [folder |-> "temp", vod |-> vod, seg |-> seg_idx, hl |-> -1]
highlight_file(vod, seg_idx, i) == [folder |-> "output", vod |-> vod, seg |-> seg_idx, hl |-> i]

\* str() of a non-negative integer.
RECURSIVE py_str(_)
py_str(n) ==
    IF n < 10 THEN <<DigitChars[n + 1]>>
    ELSE py_str(n \div 10) \o <<DigitChars[(n % 10) + 1]>>

\* Lines 24-25, 150 and 162: the path string of a destination,
\* temp/vod{vod_index}_seg{seg_idx}.mp4 or
\* output/vod{vod_index}_seg{seg_idx}_{i}.mp4.
path_name(path) ==
    (IF path.folder = "temp" THEN <<"t", "e", "m", "p">>
                             ELSE <<"o", "u", "t", "p", "u", "t">>)
    \o <<"/", "v", "o", "d">> \o py_str(path.vod)
    \o <<"_", "s", "e", "g">> \o py_str(path.seg)
    \o (IF path.hl = -1 THEN <<>> ELSE <<"_">> \o py_str(path.hl))
    \o <<".", "m", "p", "4">>

\* What `yt-dlp --get-duration` may print: nothing (source unreachable),
\* "x", "0", "4:00", "10:00" and "1:2:3:4", each with its line end.
ServiceReplies ==
    { <<>>,
      <<"x", "\n">>,
      <<"0", "\n">>,
      <<"4", ":", "0", "0", "\n">>,
      <<"1", "0", ":", "0", "0", "\n">>,
      <<"1", ":", "2", ":", "3", ":", "4", "\n">> }

\* n onsets every 2 s from `first` s on, all strong and bright.
Burst(first, n) ==
    [j \in 1..n |-> [t |-> Ticks(first + 2 * (j - 1)), strong |-> TRUE, centroid |-> 5000]]

\* The audio a chunk's file may hold.
AudioFiles ==
    { [decodable |-> FALSE, analysable |-> FALSE, onsets |-> <<>>],
      [decodable |-> TRUE, analysable |-> FALSE, onsets |-> <<>>],
      [decodable |-> TRUE, analysable |-> TRUE, onsets |-> <<>>],
      [decodable |-> TRUE, analysable |-> TRUE, onsets |-> Burst(0, 8)],
      [decodable |-> TRUE, analysable |-> TRUE, onsets |-> Burst(0, 15)] }

\* The audio of a chunk is no longer than the chunk.
AudioOf(chunk) ==
    { a \in AudioFiles :
        \A j \in 1..Len(a.onsets) : a.onsets[j].t < Ticks(chunk[2] - chunk[1]) }

\* What a prior run may have left behind.
TempFilesOfPriorRun ==
    { temp_file(v, k) : v \in 0..(Len(vod_urls) - 1), k \in 0..1 }
HighlightFilesOfPriorRun ==
    { highlight_file(v, k, i) : v \in 0..(Len(vod_urls) - 1), k \in 0..1, i \in 0..1 }
PriorRuns ==
    { {}, TempFilesOfPriorRun, TempFilesOfPriorRun \cup HighlightFilesOfPriorRun }

\* ------------------------------------------------------------------- helpers
\* An existence check that never finds the file.
never_exists(path) == FALSE

\* os.path.exists
os_path_exists(path) == path \in files

\* int() of a non-negative time in ticks: whole seconds, truncated.
to_int(ticks) ==
    IF ticks >= 0 THEN ticks \div TicksPerSecond ELSE 0 - ((0 - ticks) \div TicksPerSecond)

Line(n, vod, seg_idx, i, exc) ==
    [line |-> n, vod |-> vod, seg |-> seg_idx, hl |-> i, exc |-> exc]

SegIdx == DOMAIN futures
Executing == { k \in SegIdx : futures[k].pc \in
                 {"running", "fetching_chunk", "detect", "loop", "fetching_highlight"} }
Done(k) == futures[k].pc \in {"returned", "raised"}
ChunkStart(k) == vod_segments[k + 1][1]
ChunkEnd(k) == vod_segments[k + 1][2]

NoFutures == [k \in {} |-> 0]

\* --------------------------------------------------------------------- Init
Init ==
    /\ files \in PriorRuns
    /\ downloads = {}
    /\ log = {}
    /\ main_pc = "loop"
    /\ vod_index = 0
    /\ duration_stdout = <<>>
    /\ vod_segments = <<>>
    /\ futures = NoFutures
    /\ collected = {}
    /\ highlight_paths = <<>>
    /\ all_highlights = <<>>
    /\ arg = <<>>
    /\ ret = <<>>

\* ------------------------------------------------------------- process_vod
\* Lines 131-147 and 171-175 called without the try of line 197: a ValueError
\* ends main with a traceback.
ProcessVodNoTry ==
    /\ main_pc = "loop"
    /\ vod_index < Len(vod_urls)
    /\ \E stdout \in ServiceReplies :
         LET d == parse_duration(stdout)
         IN  IF d.err
             THEN /\ main_pc' = "traceback"
                  /\ UNCHANGED <<log, vod_index, duration_stdout, vod_segments, futures,
                                 collected, highlight_paths>>
             ELSE /\ duration_stdout' = stdout
                  /\ vod_segments' = plan_chunks(d.val, SEGMENT_DURATION)
                  /\ futures' = [k \in 0..(Len(vod_segments') - 1) |->
                                   [pc |-> "queued", events |-> <<>>, i |-> 0,
                                    segment_clips |-> <<>>]]
                  /\ collected' = {}
                  /\ highlight_paths' = <<>>
                  /\ main_pc' = "pool"
                  /\ UNCHANGED <<log, vod_index>>
    /\ UNCHANGED <<files, downloads, all_highlights, arg, ret>>

\* Lines 131-147 and 171-175: the duration is resolved and parsed, the chunks
\* planned and every chunk submitted to the pool. A ValueError leaves
\* process_vod and is caught at lines 200-201 of main.
ProcessVod ==
    /\ main_pc = "loop"
    /\ vod_index < Len(vod_urls)
    /\ \E stdout \in ServiceReplies :
         LET d == parse_duration(stdout)
         IN  IF d.err
             THEN /\ log' = log \cup {Line(201, vod_index, -1, -1, "ValueError")}
                  /\ vod_index' = vod_index + 1
                  /\ UNCHANGED <<main_pc, duration_stdout, vod_segments, futures,
                                 collected, highlight_paths>>
             ELSE /\ duration_stdout' = stdout
                  /\ vod_segments' = plan_chunks(d.val, SEGMENT_DURATION)
                  /\ futures' = [k \in 0..(Len(vod_segments') - 1) |->
                                   [pc |-> "queued", events |-> <<>>, i |-> 0,
                                    segment_clips |-> <<>>]]
                  /\ collected' = {}
                  /\ highlight_paths' = <<>>
                  /\ main_pc' = "pool"
                  /\ UNCHANGED <<log, vod_index>>
    /\ UNCHANGED <<files, downloads, all_highlights, arg, ret>>

\* Line 171 with a pool that starts a thread for every submitted chunk.
StartUnbounded(k) ==
    /\ main_pc \in {"pool", "shutdown"}
    /\ futures[k].pc = "queued"
    /\ \A j \in SegIdx : j < k => futures[j].pc # "queued"
    /\ futures' = [futures EXCEPT ![k].pc = "running"]
    /\ UNCHANGED <<files, downloads, log>>
    /\ UNCHANGED poolVars

\* Line 171: a worker of the pool takes the oldest queued chunk; at most
\* MAX_WORKERS chunks execute at a time. The workers go on taking queued
\* chunks while the pool shuts down: the `with` of line 171 leaves through
\* shutdown(wait=True), which cancels nothing.
Start(k) ==
    /\ main_pc \in {"pool", "shutdown"}
    /\ futures[k].pc = "queued"
    /\ \A j \in SegIdx : j < k => futures[j].pc # "queued"
    /\ Cardinality(Executing) < MAX_WORKERS
    /\ futures' = [futures EXCEPT ![k].pc = "running"]
    /\ UNCHANGED <<files, downloads, log>>
    /\ UNCHANGED poolVars

\* Lines 150-152: the chunk's media is downloaded unless its file exists.
CheckTemp(k) ==
    /\ futures[k].pc = "running"
    /\ LET path == temp_file(vod_index, k)
       IN  IF os_path_exists(path)
           THEN /\ futures' = [futures EXCEPT ![k].pc = "detect"]
                /\ UNCHANGED downloads
           ELSE /\ downloads' = downloads \cup
                      {[vod |-> vod_index, start |-> ChunkStart(k),
                        end |-> ChunkEnd(k), path |-> path]}
                /\ futures' = [futures EXCEPT ![k].pc = "fetching_chunk"]
    /\ UNCHANGED <<files, log>>
    /\ UNCHANGED poolVars

\* Lines 121-123 for the chunk's media: yt-dlp ends; check=True raises
\* CalledProcessError out of process_segment_wrapper when it failed.
ChunkFetched(k) ==
    /\ futures[k].pc = "fetching_chunk"
    /\ \/ /\ files' = files \cup {temp_file(vod_index, k)}
          /\ futures' = [futures EXCEPT ![k].pc = "detect"]
       \/ /\ futures' = [futures EXCEPT ![k].pc = "raised"]
          /\ UNCHANGED files
    /\ UNCHANGED <<downloads, log>>
    /\ UNCHANGED poolVars

\* Lines 154-160: detection on the chunk's file. A file that cannot be loaded
\* gives [] (line 69); an exception of the analysis gives [] (line 158).
Detect(k) ==
    /\ futures[k].pc = "detect"
    /\ \E audio \in AudioOf(vod_segments[k + 1]) :
         LET events == IF audio.decodable /\ ~audio.analysable
                       THEN <<>> ELSE detect_loud_sections(audio)
         IN  /\ futures' = [futures EXCEPT
                   ![k].events = events,
                   ![k].pc = IF events = <<>> THEN "returned" ELSE "loop"]
             /\ log' = IF ~audio.decodable
                       THEN log \cup {Line(68, vod_index, k, -1, "LoadError")}
                       ELSE IF ~audio.analysable
                            THEN log \cup {Line(157, vod_index, k, -1, "AnalysisError")}
                            ELSE log
    /\ UNCHANGED <<files, downloads>>
    /\ UNCHANGED poolVars

\* The loop of line 161 moves to its next highlight, or the wrapper returns
\* segment_clips (line 169).
NextIteration(k, clips) ==
    [futures EXCEPT
        ![k].segment_clips = clips,
        ![k].i = futures[k].i + 1,
        ![k].pc = IF futures[k].i + 1 = Len(futures[k].events) THEN "returned" ELSE "loop"]

\* Line 165: the range asked of the fetcher for a local range, in seconds.
highlight_range(start, local) == <<to_int(Ticks(start) + local[1]), to_int(Ticks(start) + local[2])>>

\* Lines 161-165: one highlight: skipped when its file exists, else its
\* download is started.
CheckHighlight(k) ==
    /\ futures[k].pc = "loop"
    /\ LET i     == futures[k].i
           path  == highlight_file(vod_index, k, i)
           range == highlight_range(ChunkStart(k), futures[k].events[i + 1])
       IN  IF os_path_exists(path)
           THEN /\ futures' = NextIteration(k, futures[k].segment_clips)
                /\ UNCHANGED downloads
           ELSE /\ downloads' = downloads \cup
                      {[vod |-> vod_index, start |-> range[1], end |-> range[2],
                        path |-> path]}
                /\ futures' = [futures EXCEPT ![k].pc = "fetching_highlight"]
    /\ UNCHANGED <<files, log>>
    /\ UNCHANGED poolVars

\* Lines 165-168 without the try of line 164: a failed download leaves
\* process_segment_wrapper as an exception.
HighlightFetchedNoTry(k) ==
    /\ futures[k].pc = "fetching_highlight"
    /\ LET i    == futures[k].i
           path == highlight_file(vod_index, k, i)
       IN  \/ /\ files' = files \cup {path}
              /\ futures' = NextIteration(k, Append(futures[k].segment_clips, path))
              /\ UNCHANGED log
           \/ /\ log' = log \cup {Line(168, vod_index, k, i, "CalledProcessError")}
              /\ futures' = [futures EXCEPT ![k].pc = "raised"]
              /\ UNCHANGED files
    /\ UNCHANGED downloads
    /\ UNCHANGED poolVars

\* Lines 165-168: the highlight's download ends: appended on success, logged
\* and skipped on failure.
HighlightFetched(k) ==
    /\ futures[k].pc = "fetching_highlight"
    /\ LET i    == futures[k].i
           path == highlight_file(vod_index, k, i)
       IN  \/ /\ files' = files \cup {path}
              /\ futures' = NextIteration(k, Append(futures[k].segment_clips, path))
              /\ UNCHANGED log
           \/ /\ log' = log \cup {Line(168, vod_index, k, i, "CalledProcessError")}
              /\ futures' = NextIteration(k, futures[k].segment_clips)
              /\ UNCHANGED files
    /\ UNCHANGED downloads
    /\ UNCHANGED poolVars

\* Lines 176-181 without the try of line 177: the exception of f.result()
\* leaves process_vod once the pool has shut down, and main logs it.
CollectNoTry(k) ==
    /\ main_pc = "pool"
    /\ Done(k)
    /\ k \notin collected
    /\ IF futures[k].pc = "returned"
       THEN /\ collected' = collected \cup {k}
            /\ highlight_paths' = highlight_paths \o futures[k].segment_clips
            /\ UNCHANGED <<log, futures, main_pc, vod_index, duration_stdout, vod_segments>>
       ELSE /\ \A j \in SegIdx : Done(j)
            /\ log' = log \cup {Line(201, vod_index, -1, -1, "CalledProcessError")}
            /\ vod_index' = vod_index + 1
            /\ main_pc' = "loop"
            /\ duration_stdout' = <<>>
            /\ vod_segments' = <<>>
            /\ futures' = NoFutures
            /\ collected' = {}
            /\ highlight_paths' = <<>>
    /\ UNCHANGED <<files, downloads, all_highlights, arg, ret>>

\* Lines 176-181 with line 178 assigning the result instead of extending.
CollectAssigns(k) ==
    /\ main_pc = "pool"
    /\ Done(k)
    /\ k \notin collected
    /\ collected' = collected \cup {k}
    /\ IF futures[k].pc = "returned"
       THEN /\ highlight_paths' = futures[k].segment_clips
            /\ UNCHANGED log
       ELSE /\ log' = log \cup {Line(181, vod_index, k, -1, "CalledProcessError")}
            /\ UNCHANGED highlight_paths
    /\ UNCHANGED <<files, downloads, futures, main_pc, vod_index, duration_stdout,
                   vod_segments, all_highlights, arg, ret>>

\* Lines 176-181: as_completed yields a finished future; its clips extend
\* the aggregate, or its exception is logged.
Collect(k) ==
    /\ main_pc = "pool"
    /\ Done(k)
    /\ k \notin collected
    /\ collected' = collected \cup {k}
    /\ IF futures[k].pc = "returned"
       THEN /\ highlight_paths' = highlight_paths \o futures[k].segment_clips
            /\ UNCHANGED log
       ELSE /\ log' = log \cup {Line(181, vod_index, k, -1, "CalledProcessError")}
            /\ UNCHANGED highlight_paths
    /\ UNCHANGED <<files, downloads, futures, main_pc, vod_index, duration_stdout,
                   vod_segments, all_highlights, arg, ret>>

\* Lines 183 and 198-199 with a `with` block that does not wait: process_vod
\* returns whatever has been collected.
ReturnEarly ==
    /\ main_pc = "pool"
    /\ all_highlights' = all_highlights \o highlight_paths
    /\ vod_index' = vod_index + 1
    /\ main_pc' = "loop"
    /\ duration_stdout' = <<>>
    /\ vod_segments' = <<>>
    /\ futures' = NoFutures
    /\ collected' = {}
    /\ highlight_paths' = <<>>
    /\ UNCHANGED <<files, downloads, log, arg, ret>>

\* Lines 183 and 198-199: every future was yielded, the pool is shut down,
\* process_vod returns and main extends its aggregate.
Return ==
    /\ main_pc = "pool"
    /\ collected = SegIdx
    /\ all_highlights' = all_highlights \o highlight_paths
    /\ vod_index' = vod_index + 1
    /\ main_pc' = "loop"
    /\ duration_stdout' = <<>>
    /\ vod_segments' = <<>>
    /\ futures' = NoFutures
    /\ collected' = {}
    /\ highlight_paths' = <<>>
    /\ UNCHANGED <<files, downloads, log, arg, ret>>

\* Lines 203-212: the loop of main is over.
Finish ==
    /\ main_pc = "loop"
    /\ vod_index = Len(vod_urls)
    /\ main_pc' = IF all_highlights # <<>> THEN "combine" ELSE "no_highlights"
    /\ UNCHANGED <<files, downloads, log, vod_index, duration_stdout, vod_segments,
                   futures, collected, highlight_paths, all_highlights, arg, ret>>

Next ==
    \/ ProcessVod
    \/ \E k \in SegIdx : Start(k)
    \/ \E k \in SegIdx : CheckTemp(k)
    \/ \E k \in SegIdx : ChunkFetched(k)
    \/ \E k \in SegIdx : Detect(k)
    \/ \E k \in SegIdx : CheckHighlight(k)
    \/ \E k \in SegIdx : HighlightFetched(k)
    \/ \E k \in SegIdx : Collect(k)
    \/ Return
    \/ Finish

Spec == Init /\ [][Next]_vars

\* The threads of the pool and the main thread keep running, and every
\* yt-dlp and librosa call returns or raises: a step that can be taken is
\* taken.
LiveSpec == Init /\ [][Next]_vars /\ WF_vars(Next)

\* ------------------------------------------------- the planner on its own
\* Line 146 applied to a duration and a chunk length drawn from the bounds.
PlanInit ==
    /\ files = {}
    /\ downloads = {}
    /\ log = {}
    /\ main_pc = "call"
    /\ vod_index = 0
    /\ duration_stdout = <<>>
    /\ vod_segments = <<>>
    /\ futures = NoFutures
    /\ collected = {}
    /\ highlight_paths = <<>>
    /\ all_highlights = <<>>
    /\ arg \in (0..MaxTotalSeconds) \X (1..MaxChunkLength)
    /\ ret = <<>>

PlanCall ==
    /\ main_pc = "call"
    /\ ret' = plan_chunks(arg[1], arg[2])
    /\ main_pc' = "planned"
    /\ UNCHANGED <<files, downloads, log, vod_index, duration_stdout, vod_segments,
                   futures, collected, highlight_paths, all_highlights, arg>>

PlanNext == PlanCall

PlanSpec == PlanInit /\ [][PlanNext]_vars

\* ------------------------------------------------ detection on its own
\* What the other variables are while a pure function is applied.
PipelineIdle ==
    /\ files = {}
    /\ downloads = {}
    /\ log = {}
    /\ vod_index = 0
    /\ duration_stdout = <<>>
    /\ vod_segments = <<>>
    /\ futures = NoFutures
    /\ collected = {}
    /\ highlight_paths = <<>>
    /\ all_highlights = <<>>

pipelineVars == <<files, downloads, log, vod_index, duration_stdout, vod_segments,
                  futures, collected, highlight_paths, all_highlights>>

\* A waveform with an onset every 2 s at slots 1..n; the onsets of `strong`
\* pass the filter of lines 80-83, the others are too weak (odd slots) or
\* too low (even slots). It ends half a second after its last onset.
Waveform(n, strong) ==
    [duration |-> IF n = 0 THEN 0 ELSE Ticks(2 * (n - 1)) + 1,
     onsets   |-> [j \in 1..n |->
                     [t        |-> Ticks(2 * (j - 1)),
                      strong   |-> (j \in strong \/ j % 2 = 0),
                      centroid |-> IF j \in strong \/ j % 2 = 1 THEN 5000 ELSE 3000]]]

Waveforms ==
    UNION { { Waveform(n, strong) : strong \in SUBSET (1..n) } : n \in 0..MaxOnsetSlots }

WindowInit ==
    /\ PipelineIdle
    /\ main_pc = "call"
    /\ arg \in Waveforms
    /\ ret = <<>>

\* Lines 71-107 applied to the waveform: the events of the window loop and
\* the segments returned.
WindowCall ==
    /\ main_pc = "call"
    /\ ret' = [events   |-> cluster_events(filter_onsets(arg.onsets)),
               segments |-> detect_segments(arg.onsets)]
    /\ main_pc' = "detected"
    /\ UNCHANGED arg
    /\ UNCHANGED pipelineVars

WindowNext == WindowCall

WindowSpec == WindowInit /\ [][WindowNext]_vars

\* ------------------------------------------- the gap filter on its own
\* Event times are multiples of 2.5 s, as window midpoints are.
EventTimes == { m * (Ticks(step_size) \div 2) : m \in 0..MaxEventSlot }
EventLists == UNION { [1..n -> EventTimes] : n \in 0..MaxEvents }

GapInit ==
    /\ PipelineIdle
    /\ main_pc = "call"
    /\ arg \in EventLists
    /\ ret = <<>>

\* Lines 100-103 applied to the event list.
GapCall ==
    /\ main_pc = "call"
    /\ ret' = [filtered_events |-> gap_filter(arg), refiltered |-> <<>>, segments |-> <<>>]
    /\ main_pc' = "filtered"
    /\ UNCHANGED arg
    /\ UNCHANGED pipelineVars

\* Lines 100-103 applied to their own result.
GapAgain ==
    /\ main_pc = "filtered"
    /\ ret' = [ret EXCEPT !.refiltered = gap_filter(ret.filtered_events)]
    /\ main_pc' = "refiltered"
    /\ UNCHANGED arg
    /\ UNCHANGED pipelineVars

\* Line 105 applied to the surviving events.
PadCall ==
    /\ main_pc = "filtered"
    /\ ret' = [ret EXCEPT !.segments =
                 [j \in 1..Len(ret.filtered_events) |-> pad_event(ret.filtered_events[j])]]
    /\ main_pc' = "padded"
    /\ UNCHANGED arg
    /\ UNCHANGED pipelineVars

GapNext == GapCall \/ GapAgain \/ PadCall

GapSpec == GapInit /\ [][GapNext]_vars

\* ------------------------------------------------- the pool on its own
\* One recording of up to MAX_WORKERS + ExtraChunks chunks. Every chunk is
\* silent, so a chunk's call is its media download and a detection that finds
\* nothing; it is taken as one step.
PoolChunks == MAX_WORKERS + ExtraChunks

\* What `yt-dlp --get-duration` prints for a duration: M:SS or H:MM:SS.
two_digits(n) == <<DigitChars[(n \div 10) + 1], DigitChars[(n % 10) + 1]>>
printed_duration(seconds) ==
    LET h == seconds \div 3600
        m == (seconds % 3600) \div 60
        sec == seconds % 60
    IN  (IF h > 0
         THEN <<DigitChars[h + 1], ":">> \o two_digits(m)
         ELSE IF m >= 10 THEN two_digits(m) ELSE <<DigitChars[m + 1]>>)
        \o <<":">> \o two_digits(sec) \o <<"\n">>

SilentAudio == [decodable |-> TRUE, analysable |-> TRUE, onsets |-> <<>>]

\* The state after lines 131-147 and 171-175 for the first recording: n
\* chunks submitted. The media of the first and of the last chunk is still
\* to be downloaded, the other chunks have theirs from a prior run.
PoolInit ==
    \E n \in 1..PoolChunks :
        /\ duration_stdout = printed_duration(n * SEGMENT_DURATION)
        /\ vod_segments = plan_chunks(parse_duration(duration_stdout).val, SEGMENT_DURATION)
        /\ futures = [k \in 0..(Len(vod_segments) - 1) |->
                        [pc |-> "queued", events |-> <<>>, i |-> 0, segment_clips |-> <<>>]]
        /\ files = { temp_file(0, k) : k \in 1..(n - 2) }
        /\ downloads = {}
        /\ log = {}
        /\ main_pc = "pool"
        /\ vod_index = 0
        /\ collected = {}
        /\ highlight_paths = <<>>
        /\ all_highlights = <<>>
        /\ arg = <<>>
        /\ ret = <<>>

\* Lines 149-169 for a silent chunk: the media is downloaded unless its file
\* exists (a failed download raises), detection finds nothing and the call
\* returns [].
process_segment_wrapper(k) ==
    /\ futures[k].pc = "running"
    /\ LET path == temp_file(vod_index, k)
           returned == [futures EXCEPT
                           ![k].events = detect_loud_sections(SilentAudio),
                           ![k].pc = "returned"]
       IN  IF os_path_exists(path)
           THEN /\ futures' = returned
                /\ UNCHANGED <<files, downloads>>
           ELSE /\ downloads' = downloads \cup
                      {[vod |-> vod_index, start |-> ChunkStart(k),
                        end |-> ChunkEnd(k), path |-> path]}
                /\ \/ /\ files' = files \cup {path}
                      /\ futures' = returned
                   \/ /\ futures' = [futures EXCEPT ![k].pc = "raised"]
                      /\ UNCHANGED files
    /\ UNCHANGED log
    /\ UNCHANGED poolVars

\* KeyboardInterrupt in the main thread while it waits in as_completed
\* (line 176): `except Exception` of line 179 does not catch it, and the
\* `with` of line 171 is left through shutdown(wait=True).
KeyboardInterrupt ==
    /\ main_pc = "pool"
    /\ main_pc' = "shutdown"
    /\ UNCHANGED <<files, downloads, log, vod_index, duration_stdout, vod_segments,
                   futures, collected, highlight_paths, all_highlights, arg, ret>>

\* shutdown(wait=True) returns once the workers have emptied the queue; the
\* interrupt leaves process_vod and, uncaught at line 200, ends main.
Interrupted ==
    /\ main_pc = "shutdown"
    /\ \A k \in SegIdx : Done(k)
    /\ main_pc' = "interrupted"
    /\ UNCHANGED <<files, downloads, log, vod_index, duration_stdout, vod_segments,
                   futures, collected, highlight_paths, all_highlights, arg, ret>>

PoolNext ==
    \/ \E k \in SegIdx : Start(k)
    \/ \E k \in SegIdx : process_segment_wrapper(k)
    \/ KeyboardInterrupt
    \/ Interrupted

PoolSpec == PoolInit /\ [][PoolNext]_vars

\* ------------------------------------------------------------------ claims
\* C1: for totalSeconds > 0 and chunkLength > 0 the planned chunks are
\* [0,L),[L,2L),...: the first starts at 0, each starts where the previous
\* one ends, every chunk but the last is L long, the last ends at
\* totalSeconds and is totalSeconds mod L long, or L when L divides it.
C1_PlanCoversDuration ==
    (main_pc = "planned" /\ arg[1] > 0) =>
        LET total == arg[1]
            L     == arg[2]
            n     == Len(ret)
        IN  /\ n >= 1
            /\ ret[1][1] = 0
            /\ \A j \in 1..(n - 1) :
                   /\ ret[j + 1][1] = ret[j][2]
                   /\ ret[j][2] - ret[j][1] = L
            /\ ret[n][2] = total
            /\ ret[n][2] - ret[n][1] = (IF total % L = 0 THEN L ELSE total % L)

\* A plan of three chunks whose last one is clipped.
C1_Witness ==
    /\ main_pc = "planned"
    /\ arg = <<12, 5>>
    /\ ret = << <<0, 5>>, <<5, 10>>, <<10, 12>> >>

\* The clips of chunk k of recording v in a clip list, in order.
ClipsOf(clips, v, k) == SelectSeq(clips, LAMBDA p : p.vod = v /\ p.seg = k)
Elems(seq) == { seq[j] : j \in 1..Len(seq) }
DownloadedPaths == { d.path : d \in downloads }
ChunkFetchFailed(v, k) == Line(181, v, k, -1, "CalledProcessError") \in log
HighlightFetchFailed(v, k, i) == Line(168, v, k, i, "CalledProcessError") \in log

\* C2: a chunk whose media fetch failed ends as a failure with no clips, the
\* failure does not leave process_vod (main logs no exception of a fetch),
\* and every sibling chunk contributes to the aggregate exactly its own clip
\* list, in whatever order the futures were yielded.
C2_ChunkFetchFailureIsolated ==
    /\ \A e \in log : ~(e.line = 201 /\ e.exc = "CalledProcessError")
    /\ \A e \in log :
           e.line = 181 =>
               /\ ClipsOf(all_highlights, e.vod, e.seg) = <<>>
               /\ ClipsOf(highlight_paths, e.vod, e.seg) = <<>>
    /\ main_pc = "pool" =>
           \A k \in SegIdx :
               /\ futures[k].pc = "raised" => futures[k].segment_clips = <<>>
               /\ (k \in collected /\ futures[k].pc = "raised") =>
                      /\ ChunkFetchFailed(vod_index, k)
                      /\ \A j \in collected :
                             futures[j].pc = "returned" =>
                                 ClipsOf(highlight_paths, vod_index, j)
                                     = futures[j].segment_clips

\* Chunk 0 failed to fetch, chunk 1 produced two clips, both were yielded.
C2_Witness ==
    /\ main_pc = "pool"
    /\ collected = {0, 1}
    /\ futures[0].pc = "raised"
    /\ futures[1].pc = "returned"
    /\ Len(futures[1].segment_clips) = 2
    /\ highlight_paths = futures[1].segment_clips

\* C3: at every moment of process_vod the aggregate holds, each once, exactly
\* the clips of the yielded chunks that returned a list; a yielded chunk that
\* failed has its failure logged and takes nothing away.
C3_AggregateIsUnionOfSuccesses ==
    main_pc = "pool" =>
        /\ \A j \in 1..Len(highlight_paths) :
               /\ highlight_paths[j].vod = vod_index
               /\ highlight_paths[j].seg \in collected
               /\ \A m \in 1..Len(highlight_paths) :
                      highlight_paths[m] = highlight_paths[j] => m = j
        /\ \A k \in SegIdx :
               /\ (k \in collected /\ futures[k].pc = "returned") =>
                      ClipsOf(highlight_paths, vod_index, k) = futures[k].segment_clips
               /\ (k \in collected /\ futures[k].pc = "raised") =>
                      /\ ChunkFetchFailed(vod_index, k)
                      /\ ClipsOf(highlight_paths, vod_index, k) = <<>>
               /\ k \notin collected => ClipsOf(highlight_paths, vod_index, k) = <<>>

\* Chunk 1 was yielded before chunk 0 and both produced clips.
C3_Witness ==
    /\ main_pc = "pool"
    /\ collected = {0, 1}
    /\ futures[0].pc = "returned"
    /\ futures[1].pc = "returned"
    /\ futures[0].segment_clips # <<>>
    /\ futures[1].segment_clips # <<>>
    /\ highlight_paths = futures[1].segment_clips \o futures[0].segment_clips

\* C4: a chunk's clip list contains every detected highlight whose
\* destination exists, those left by a prior run included.
C4_ExistingHighlightsReturned ==
    \A k \in SegIdx :
        futures[k].pc = "returned" =>
            \A i \in 0..(Len(futures[k].events) - 1) :
                highlight_file(vod_index, k, i) \in files =>
                    highlight_file(vod_index, k, i) \in Elems(futures[k].segment_clips)

\* C5: download_segment is never called for a destination that exists when
\* the call is made.
C5_NoFetchOfExistingDestination ==
    [][\A d \in downloads' \ downloads : d.path \notin files]_vars

\* A chunk whose media existed, so that nothing was fetched for it, while a
\* highlight of it that did not exist is being fetched.
C5_Witness ==
    \E k \in SegIdx :
        /\ futures[k].pc = "fetching_highlight"
        /\ temp_file(vod_index, k) \in files
        /\ temp_file(vod_index, k) \notin DownloadedPaths
        /\ highlight_file(vod_index, k, futures[k].i) \in DownloadedPaths

\* C6: within a chunk a highlight whose fetch failed is absent from the clip
\* list, every highlight whose fetch succeeded is in it, the chunk never ends
\* as a failure because of a highlight, and it returns only after the loop
\* has visited every detected highlight.
C6_HighlightFailureSkipsOnlyThatHighlight ==
    \A k \in SegIdx :
        LET f    == futures[k]
            seen == IF f.pc = "returned" THEN Len(f.events) ELSE f.i
            path(i) == highlight_file(vod_index, k, i)
        IN  /\ f.pc = "returned" => (f.events = <<>> \/ f.i = Len(f.events))
            /\ \A i \in 0..(Len(f.events) - 1) :
                   /\ HighlightFetchFailed(vod_index, k, i) =>
                          /\ f.pc # "raised"
                          /\ path(i) \notin Elems(f.segment_clips)
                   /\ (i < seen /\ path(i) \in DownloadedPaths
                         /\ ~HighlightFetchFailed(vod_index, k, i)) =>
                          path(i) \in Elems(f.segment_clips)

\* Highlight 0 failed and highlight 1 of the same chunk is in the clip list.
C6_Witness ==
    \E k \in SegIdx :
        /\ futures[k].pc = "returned"
        /\ Len(futures[k].events) = 2
        /\ HighlightFetchFailed(vod_index, k, 0)
        /\ futures[k].segment_clips = <<highlight_file(vod_index, k, 1)>>

ResolutionFailed(v) == Line(201, v, -1, -1, "ValueError") \in log
ClipsOfVod(clips, v) == SelectSeq(clips, LAMBDA p : p.vod = v)

\* What holds in every state for a recording whose duration was not
\* resolved, and for the end of the run.
C7_NothingOfFailedRecording ==
    /\ main_pc \in {"loop", "pool", "combine", "no_highlights"}
    /\ \A v \in 0..(Len(vod_urls) - 1) :
           ResolutionFailed(v) =>
               /\ \A d \in downloads : d.vod # v
               /\ ClipsOfVod(all_highlights, v) = <<>>
               /\ vod_index > v
    /\ main_pc = "no_highlights" => (all_highlights = <<>> /\ vod_index = Len(vod_urls))
    /\ main_pc = "combine" => (all_highlights # <<>> /\ vod_index = Len(vod_urls))

\* The step of main in which process_vod does not reach its pool: the
\* failure is logged, the loop goes on with the next recording, and the
\* aggregate, the downloads and the files are as they were.
C7_FailedResolutionStep ==
    (main_pc = "loop" /\ vod_index < Len(vod_urls) /\ main_pc' # "pool") =>
        /\ log' = log \cup {Line(201, vod_index, -1, -1, "ValueError")}
        /\ main_pc' = "loop"
        /\ vod_index' = vod_index + 1
        /\ UNCHANGED <<all_highlights, downloads, files>>

\* C7: when the duration of one recording cannot be resolved the run goes
\* on without raising, nothing of that recording is planned or fetched, the
\* clips of the other recordings stay as they are, and a run that produced
\* nothing ends with "no highlights".
C7_ResolutionFailureIsolated ==
    []C7_NothingOfFailedRecording /\ [][C7_FailedResolutionStep]_vars

\* The run ended: the first recording failed to resolve and the clips of the
\* second are the aggregate.
C7_Witness ==
    /\ main_pc = "combine"
    /\ ResolutionFailed(0)
    /\ ~ResolutionFailed(1)
    /\ ClipsOfVod(all_highlights, 1) = all_highlights

\* One of the forms H:MM:SS, MM:SS and SS: one to three fields of digits.
IsDurationForm(duration_str) ==
    LET fields == split(duration_str)
    IN  /\ Len(fields) \in 1..3
        /\ \A j \in 1..Len(fields) :
               /\ fields[j] # <<>>
               /\ \A m \in 1..Len(fields[j]) : IsDigit(fields[j][m])

\* C8: process_vod gets past its duration parsing only with a string of one
\* of the forms H:MM:SS, MM:SS and SS; any other string is an error.
C8_OnlyDurationFormsAccepted ==
    main_pc = "pool" => IsDurationForm(strip(duration_stdout))

\* C9: a chunk whose audio could not be decoded does not end as a returned
\* clip list.
C9_UndecodableAudioIsAFailure ==
    \A k \in SegIdx :
        Line(68, vod_index, k, -1, "LoadError") \in log => futures[k].pc # "returned"

\* C10: the range asked of the fetcher for a highlight is the local range
\* moved by the chunk's start, with no other adjustment.
C10_HighlightRangeIsTranslation ==
    \A k \in SegIdx :
        futures[k].pc = "fetching_highlight" =>
            LET local == futures[k].events[futures[k].i + 1]
            IN  \A d \in downloads :
                    d.path = highlight_file(vod_index, k, futures[k].i) =>
                        /\ Ticks(d.start) = Ticks(ChunkStart(k)) + local[1]
                        /\ Ticks(d.end) = Ticks(ChunkStart(k)) + local[2]

\* C11: every range handed to download_segment, for a chunk or for a
\* highlight, starts at or after 0 and ends after it starts.
C11_FetchedRangesAreProper ==
    \A d \in downloads : d.start >= 0 /\ d.end > d.start

\* A chunk range and a highlight range of the second chunk were both asked
\* of the fetcher.
C11_Witness ==
    /\ \E d \in downloads : d.path.folder = "temp" /\ d.start = SEGMENT_DURATION
    /\ \E d \in downloads : d.path.folder = "output" /\ d.start > SEGMENT_DURATION

\* The times of the onsets of a waveform that are strong and bright.
QualifyingTimes(w) ==
    { w.onsets[j].t : j \in { m \in 1..Len(w.onsets) :
                                w.onsets[m].strong /\ w.onsets[m].centroid > centroid_threshold } }
LastOf(times) == IF times = {} THEN 0 ELSE CHOOSE t \in times : \A u \in times : u <= t
\* The window positions 0, step, 2*step, ... the loop of line 92 visits.
VisitedWindows(times) ==
    { m * Ticks(step_size) : m \in 0..(Ticks(2 * MaxOnsetSlots + 2) \div Ticks(step_size)) }
        \cap { w \in 0..Ticks(2 * MaxOnsetSlots + 2) :
                 w < LastOf(times) - Ticks(window_size) + Ticks(step_size) }
CountIn(times, w) == Cardinality({ t \in times : w <= t /\ t < w + Ticks(window_size) })
HalfWindow == Ticks(window_size) \div 2

C13_EventIffWindowIsDense ==
    main_pc = "detected" =>
        LET times == QualifyingTimes(arg)
        IN  /\ Elems(ret.events) =
                   { w + HalfWindow : w \in { v \in VisitedWindows(times) :
                                                CountIn(times, v) >= min_onsets } }
            /\ \A j \in 1..(Len(ret.events) - 1) : ret.events[j] < ret.events[j + 1]
            /\ times = { Ticks(2 * m) : m \in 0..7 } =>
                   /\ ret.events = <<Ticks(15) \div 2>>
                   /\ ret.segments = << <<Ticks(5) \div 2, Ticks(25) \div 2>> >>

\* The 8 onsets of the scenario, and the one range they give.
C13_Witness ==
    /\ main_pc = "detected"
    /\ QualifyingTimes(arg) = { Ticks(2 * m) : m \in 0..7 }
    /\ Len(ret.segments) = 1

GapFiltered == main_pc \in {"filtered", "refiltered", "padded"}

\* C14: any two distinct events that survive the gap filter, adjacent or
\* not, are more than MIN_GAP_BETWEEN_EVENTS apart; the survivors are events
\* of the input and the earliest event always survives.
C14_SurvivorsAreFartherThanGap ==
    GapFiltered =>
        LET out == ret.filtered_events
        IN  /\ \A i, j \in 1..Len(out) :
                   i < j => out[j] - out[i] > Ticks(MIN_GAP_BETWEEN_EVENTS)
            /\ Elems(out) \subseteq Elems(arg)
            /\ arg # <<>> => (out # <<>> /\ \A j \in 1..Len(arg) : out[1] <= arg[j])

\* Three survivors: the first and the third are not adjacent.
C14_Witness ==
    /\ main_pc = "filtered"
    /\ Len(ret.filtered_events) = 3

\* C15: the gap filter applied to its own result returns it unchanged.
C15_GapFilterIdempotent ==
    main_pc = "refiltered" => ret.refiltered = ret.filtered_events

\* An event was dropped by the first pass, none by the second.
C15_Witness ==
    /\ main_pc = "refiltered"
    /\ Len(arg) = 3
    /\ Len(ret.filtered_events) = 2
    /\ ret.refiltered = ret.filtered_events

\* C16: the range of a surviving event t ends at t + post, never clipped;
\* it starts at t - pre and is pre + post long, except when t - pre is below
\* 0: then it starts at 0 and is shorter than pre + post.
C16_PaddedRange ==
    main_pc = "padded" =>
        /\ Len(ret.segments) = Len(ret.filtered_events)
        /\ \A j \in 1..Len(ret.segments) :
               LET t     == ret.filtered_events[j]
                   start == ret.segments[j][1]
                   end   == ret.segments[j][2]
                   full  == Ticks(PRE_SECONDS) + Ticks(POST_SECONDS)
               IN  /\ end = t + Ticks(POST_SECONDS)
                   /\ IF t - Ticks(PRE_SECONDS) >= 0
                      THEN start = t - Ticks(PRE_SECONDS) /\ end - start = full
                      ELSE start = 0 /\ end - start < full

\* One range clipped at 0 and one of full length.
C16_Witness ==
    /\ main_pc = "padded"
    /\ Len(ret.segments) = 2
    /\ ret.segments[1][1] = 0
    /\ ret.segments[1][2] - ret.segments[1][1] < Ticks(PRE_SECONDS) + Ticks(POST_SECONDS)
    /\ ret.segments[2][2] - ret.segments[2][1] = Ticks(PRE_SECONDS) + Ticks(POST_SECONDS)

Queued(k) == futures[k].pc = "queued"
OldestQueued(k) == Queued(k) /\ \A j \in SegIdx : j < k => ~Queued(j)

\* C17: at most MAX_WORKERS chunk calls execute at any moment, whatever the
\* number of planned chunks; while the pool is open and fewer than
\* MAX_WORKERS calls execute, the oldest waiting chunk can start, whatever
\* the other chunks did (returned, raised or still running).
C17_OnlyAdmissionLimitDelays ==
    /\ Cardinality(Executing) <= MAX_WORKERS
    /\ \A k \in SegIdx :
           (main_pc = "pool" /\ OldestQueued(k) /\ Cardinality(Executing) < MAX_WORKERS)
               => ENABLED Start(k)

\* The pool is full, a chunk waits, and an earlier chunk has raised.
C17_Witness ==
    /\ main_pc = "pool"
    /\ Cardinality(Executing) = MAX_WORKERS
    /\ \E k \in SegIdx : Queued(k)
    /\ \E k \in SegIdx : futures[k].pc = "raised"

\* C19: once the orchestrator was asked to stop, no chunk that had not
\* started is started, and the run ends only when no chunk call is still
\* executing.
C19_StopStartsNoChunk ==
    [][/\ main_pc = "shutdown" =>
              \A k \in SegIdx : Queued(k) => futures'[k].pc = "queued"
       /\ main_pc' = "interrupted" => Executing = {}]_vars

Writing == { k \in SegIdx : futures[k].pc \in {"fetching_chunk", "fetching_highlight"} }
Destination(k) ==
    IF futures[k].pc = "fetching_chunk"
    THEN temp_file(vod_index, k)
    ELSE highlight_file(vod_index, k, futures[k].i)
Destinations ==
    { temp_file(v, k) : v \in 0..MaxIndex, k \in 0..MaxIndex }
    \cup { highlight_file(v, k, i) : v \in 0..MaxIndex, k \in 0..MaxIndex, i \in 0..MaxIndex }
DestinationNamesDistinct ==
    Cardinality({ path_name(p) : p \in Destinations }) = Cardinality(Destinations)

\* C18: the path strings of the chunk-media and highlight destinations are
\* pairwise distinct over recordings, chunks and highlights; two chunk calls
\* that are downloading at the same moment write different paths, and no
\* path is the destination of two download calls of a run.
C18_NoTwoWritersOfOneDestination ==
    /\ DestinationNamesDistinct
    /\ \A k1, k2 \in Writing :
           k1 # k2 => path_name(Destination(k1)) # path_name(Destination(k2))
    /\ \A d1, d2 \in downloads :
           path_name(d1.path) = path_name(d2.path) => d1 = d2

\* Two chunks are downloading at once: one its media, one a highlight.
C18_Witness ==
    /\ Cardinality(Writing) = 2
    /\ \E k1, k2 \in Writing :
           futures[k1].pc = "fetching_chunk" /\ futures[k2].pc = "fetching_highlight"

C20_ReturnStep ==
    (main_pc = "pool" /\ main_pc' # "pool") =>
        /\ \A k \in SegIdx : Done(k) /\ k \in collected
        /\ Executing = {}
        /\ main_pc' = "loop"
        /\ all_highlights' = all_highlights \o highlight_paths
C20_ConsumeStep ==
    (main_pc = "pool" /\ main_pc' = "pool" /\ collected' # collected) =>
        \E k \in SegIdx \ collected :
            /\ Done(k)
            /\ collected' = collected \cup {k}
            /\ highlight_paths' = highlight_paths \o
                   (IF futures[k].pc = "returned" THEN futures[k].segment_clips ELSE <<>>)

\* C20: process_vod returns, and main goes on to combine, only when every
\* submitted chunk call has finished and been consumed, each exactly once,
\* with no call still executing; and when every call returns or raises, a
\* process_vod that has submitted its chunks eventually returns and main
\* eventually reaches its combining step.
C20_ReturnsAfterEveryChunk ==
    /\ [][C20_ReturnStep /\ C20_ConsumeStep]_vars
    /\ [](main_pc \in {"combine", "no_highlights"} => Executing = {})
    /\ (main_pc = "pool") ~> (main_pc = "loop")
    /\ <>(main_pc \in {"combine", "no_highlights"})

\* main combines the clips of both recordings after both pools were left.
C20_Witness ==
    /\ main_pc = "combine"
    /\ \E j \in 1..Len(all_highlights) : all_highlights[j].vod = 0
    /\ \E j \in 1..Len(all_highlights) : all_highlights[j].vod = 1
    /\ \E e \in log : e.line = 181

====
